---- MODULE Spec2Model ----
(***************************************************************************)
(* Model of the conversation client OpenAIModel (src/openai_model.py).     *)
(*                                                                         *)
(* A text is a sequence of Unicode code points, so that str.strip() is     *)
(* computed character by character: <<32, 97>> is " a".  A Python value    *)
(* that an operation returns or raises is a record [kind, val, msg].       *)
(***************************************************************************)
EXTENDS Naturals, Sequences, FiniteSets, TLC

\* ----------------------------------------------------------------- bounds
MaxHist == 2       \* longest history explored
MaxChoices == 2    \* most candidates in one remote response

\* ------------------------------------------------------------------ inputs
\* The characters str.strip() removes, those for which str.isspace() holds:
\* U+0009..U+000D, U+001C..U+0020, U+0085, U+00A0, U+1680, U+2000..U+200A,
\* U+2028, U+2029, U+202F, U+205F, U+3000.
Whitespace ==
    (9..13) \cup (28..32) \cup {133, 160, 5760} \cup (8192..8202)
        \cup {8232, 8233, 8239, 8287, 12288}

\* The texts handed to add_message and returned by the remote endpoint:
\* "", " ", "\t\r\n", "\x1c\xa0\u3000" (blank), "a", " a", "a a" and
\* "\x0ba\u2003" (whitespace on both sides).
Texts ==
    {<<>>, <<32>>, <<9, 13, 10>>, <<28, 160, 12288>>,
     <<97>>, <<32, 97>>, <<97, 32, 97>>, <<11, 97, 8195>>}

RoleInputs == {"user", "assistant", "system", "narrator"}

ModelNames == {"gpt-4o-mini", "gpt-3.5-turbo", "foo-bar"}

\* The constructor's default for model_name.
DefaultModelName == "gpt-4o-mini"

\* ------------------------------------------------------------ Python values
None == [kind |-> "None", val |-> <<>>, msg |-> ""]
Str(s) == [kind |-> "str", val |-> s, msg |-> ""]
ValueError(m) == [kind |-> "ValueError", val |-> <<>>, msg |-> m]
TypeError(m) == [kind |-> "TypeError", val |-> <<>>, msg |-> m]

\* How the object the remote call returns can be read: by attribute only (the
\* ChatCompletion of the imported client), by subscript only (a plain dict),
\* or both ways.
Access == {"attr", "item", "both"}

NoResponse == [kind |-> "None", access |-> "", choices |-> <<>>]
ChatCompletion(a, cs) == [kind |-> "ChatCompletion", access |-> a, choices |-> cs]

\* -------------------------------------------------------------- str.strip()
RECURSIVE lstrip(_)
lstrip(s) ==
    IF s # <<>> /\ Head(s) \in Whitespace THEN lstrip(Tail(s)) ELSE s

RECURSIVE rstrip(_)
rstrip(s) ==
    IF s # <<>> /\ s[Len(s)] \in Whitespace
    THEN rstrip(SubSeq(s, 1, Len(s) - 1))
    ELSE s

\* Mutant: strips the left side only.
strip_left_only(s) == lstrip(s)

strip(s) == rstrip(lstrip(s))

\* ---------------------------------------------------- get_model_max_tokens
token_limits ==
    [n \in {"gpt-4o-mini", "gpt-3.5-turbo"} |->
        IF n = "gpt-4o-mini" THEN 16384 ELSE 4096]

\* Mutant: an unrecognized identifier gets the largest known limit.
get_model_max_tokens_wrong_default(name) ==
    IF name \in DOMAIN token_limits THEN token_limits[name] ELSE 16384

get_model_max_tokens(name) ==
    IF name \in DOMAIN token_limits THEN token_limits[name] ELSE 4096

\* ------------------------------------------------------------- add_message
Roles == {"user", "assistant", "system"}

\* Mutant: the role is not validated.
add_message_any_role(msgs, role, content) ==
    IF strip(content) = <<>>
    THEN [messages |-> msgs,
          exc |-> ValueError("Content must be a non-empty string.")]
    ELSE [messages |-> Append(msgs, [role |-> role, content |-> strip(content)]),
          exc |-> None]

\* Mutant: the content is validated but stored as given.
add_message_unstripped(msgs, role, content) ==
    IF role \notin Roles
    THEN [messages |-> msgs,
          exc |-> ValueError("Invalid role. Choose from 'user', 'assistant', or 'system'.")]
    ELSE IF strip(content) = <<>>
    THEN [messages |-> msgs,
          exc |-> ValueError("Content must be a non-empty string.")]
    ELSE [messages |-> Append(msgs, [role |-> role, content |-> content]),
          exc |-> None]

\* The outcome of add_message on history msgs: the history after the call and
\* the exception it raised (None when it returned normally).
add_message(msgs, role, content) ==
    IF role \notin Roles
    THEN [messages |-> msgs,
          exc |-> ValueError("Invalid role. Choose from 'user', 'assistant', or 'system'.")]
    ELSE IF strip(content) = <<>>
    THEN [messages |-> msgs,
          exc |-> ValueError("Content must be a non-empty string.")]
    ELSE [messages |-> Append(msgs, [role |-> role, content |-> strip(content)]),
          exc |-> None]

\* ----------------------------------------------------------- remote endpoint
\* What client.chat.completions.create can do: raise, or return a response
\* with 0..MaxChoices candidates whose message content is a text or None.
FirstContents == {Str(t) : t \in Texts} \cup {None}
OtherContents == {Str(<<98>>)}   \* "b"

RECURSIVE ChoicesOfLen(_)
ChoicesOfLen(n) ==
    IF n = 0 THEN {<<>>}
    ELSE IF n = 1 THEN {<<c>> : c \in FirstContents}
    ELSE {Append(cs, c) : cs \in ChoicesOfLen(n - 1), c \in OtherContents}

RemoteOutcomes ==
    {[kind |-> "raise", access |-> "", choices |-> <<>>]}
    \cup {ChatCompletion(a, cs) :
            a \in Access, cs \in UNION {ChoicesOfLen(n) : n \in 0..MaxChoices}}

\* -------------------------------------------------------------------- chat
\* The outcome of chat when the remote call ends as `remote`: the history, the
\* stored response, the returned value, the number of remote calls made and
\* the exception the except branch caught and logged ("" when none).  chat
\* reads the response by attribute (response.choices[0].message.content).
ChatFailed(msgs, resp, e) ==
    [messages |-> msgs, response |-> resp, ret |-> None, calls |-> 1, caught |-> e]

\* Mutant: a raising remote call is tried a second time.
chat_retry(msgs, resp, remote) ==
    IF remote.kind = "raise"
    THEN [messages |-> msgs, response |-> resp, ret |-> None, calls |-> 2,
          caught |-> "APIError"]
    ELSE IF remote.access = "item" THEN ChatFailed(msgs, resp, "AttributeError")
    ELSE IF remote.choices = <<>> THEN ChatFailed(msgs, resp, "IndexError")
    ELSE IF remote.choices[1].kind # "str" THEN ChatFailed(msgs, resp, "AttributeError")
    ELSE LET response_content == strip(remote.choices[1].val)
             added == add_message(msgs, "assistant", response_content)
         IN  IF added.exc # None THEN ChatFailed(msgs, resp, added.exc.kind)
             ELSE [messages |-> added.messages,
                   response |-> remote,
                   ret |-> Str(response_content),
                   calls |-> 1,
                   caught |-> ""]

\* Mutant: the last candidate is used instead of the first.
chat_last_choice(msgs, resp, remote) ==
    IF remote.kind = "raise" THEN ChatFailed(msgs, resp, "APIError")
    ELSE IF remote.access = "item" THEN ChatFailed(msgs, resp, "AttributeError")
    ELSE IF remote.choices = <<>> THEN ChatFailed(msgs, resp, "IndexError")
    ELSE IF remote.choices[Len(remote.choices)].kind # "str"
    THEN ChatFailed(msgs, resp, "AttributeError")
    ELSE LET response_content == strip(remote.choices[Len(remote.choices)].val)
             added == add_message(msgs, "assistant", response_content)
         IN  IF added.exc # None THEN ChatFailed(msgs, resp, added.exc.kind)
             ELSE [messages |-> added.messages,
                   response |-> remote,
                   ret |-> Str(response_content),
                   calls |-> 1,
                   caught |-> ""]

\* Mutant: the response is stored before the reply is added to the history.
chat_store_first(msgs, resp, remote) ==
    IF remote.kind = "raise" THEN ChatFailed(msgs, resp, "APIError")
    ELSE IF remote.access = "item" THEN ChatFailed(msgs, resp, "AttributeError")
    ELSE IF remote.choices = <<>> THEN ChatFailed(msgs, resp, "IndexError")
    ELSE IF remote.choices[1].kind # "str" THEN ChatFailed(msgs, resp, "AttributeError")
    ELSE LET response_content == strip(remote.choices[1].val)
             added == add_message(msgs, "assistant", response_content)
         IN  IF added.exc # None THEN ChatFailed(msgs, remote, added.exc.kind)
             ELSE [messages |-> added.messages,
                   response |-> remote,
                   ret |-> Str(response_content),
                   calls |-> 1,
                   caught |-> ""]

chat(msgs, resp, remote) ==
    IF remote.kind = "raise" THEN ChatFailed(msgs, resp, "APIError")
    ELSE IF remote.access = "item" THEN ChatFailed(msgs, resp, "AttributeError")
    ELSE IF remote.choices = <<>> THEN ChatFailed(msgs, resp, "IndexError")
    ELSE IF remote.choices[1].kind # "str" THEN ChatFailed(msgs, resp, "AttributeError")
    ELSE LET response_content == strip(remote.choices[1].val)
             added == add_message(msgs, "assistant", response_content)
         IN  IF added.exc # None THEN ChatFailed(msgs, resp, added.exc.kind)
             ELSE [messages |-> added.messages,
                   response |-> remote,
                   ret |-> Str(response_content),
                   calls |-> 1,
                   caught |-> ""]

\* ------------------------------------------------------ reset_conversation
\* Mutant: the stored response survives the reset.
reset_conversation_keeps_response(msgs, resp) ==
    [messages |-> <<>>, response |-> resp]

reset_conversation(msgs, resp) ==
    [messages |-> <<>>, response |-> NoResponse]

\* ------------------------------------------------------- get_last_response
\* Reads the stored response by subscript (self._response['choices'][0]...):
\* the content of the first candidate as the remote endpoint returned it, or
\* TypeError when the stored object allows attribute access only.
get_last_response(resp) ==
    IF resp.kind = "None" THEN None
    ELSE IF resp.access = "both" THEN resp.choices[1]
    ELSE TypeError("object is not subscriptable")

\* ------------------------------------------------------------------- state
VARIABLES
    model_name,     \* self.model_name
    max_tokens,     \* self.max_tokens
    _messages,      \* self._messages
    _response,      \* self._response
    op,             \* the operation that ran last
    ret,            \* what it returned, or the exception that escaped it
    remote_calls,   \* calls of the remote endpoint made by the last operation
    caught          \* exception the last operation caught and logged, or ""

vars ==
    <<model_name, max_tokens, _messages, _response, op, ret, remote_calls, caught>>

\* The state __init__ leaves for the identifier name.
Construct(name) ==
    /\ model_name = name
    /\ max_tokens = get_model_max_tokens(name)
    /\ _messages = <<>>
    /\ _response = NoResponse
    /\ op = "__init__"
    /\ ret = None
    /\ remote_calls = 0
    /\ caught = ""

\* A client built with the default identifier.
Init == Construct(DefaultModelName)

\* A client built with any of the identifiers.
InitAnyModel == \E name \in ModelNames : Construct(name)

AddMessage(role, content) ==
    LET r == add_message(_messages, role, content)
    IN  /\ Len(r.messages) <= MaxHist
        /\ _messages' = r.messages
        /\ op' = "add_message"
        /\ ret' = r.exc
        /\ remote_calls' = 0
        /\ caught' = ""
        /\ UNCHANGED <<model_name, max_tokens, _response>>

Chat(remote) ==
    LET r == chat(_messages, _response, remote)
    IN  /\ Len(r.messages) <= MaxHist
        /\ _messages' = r.messages
        /\ _response' = r.response
        /\ op' = "chat"
        /\ ret' = r.ret
        /\ remote_calls' = r.calls
        /\ caught' = r.caught
        /\ UNCHANGED <<model_name, max_tokens>>

ResetConversation ==
    LET r == reset_conversation(_messages, _response)
    IN  /\ _messages' = r.messages
        /\ _response' = r.response
        /\ op' = "reset_conversation"
        /\ ret' = None
        /\ remote_calls' = 0
        /\ caught' = ""
        /\ UNCHANGED <<model_name, max_tokens>>

GetLastResponse ==
    /\ op' = "get_last_response"
    /\ ret' = get_last_response(_response)
    /\ remote_calls' = 0
    /\ caught' = ""
    /\ UNCHANGED <<model_name, max_tokens, _messages, _response>>

Next ==
    \/ \E role \in RoleInputs, content \in Texts : AddMessage(role, content)
    \/ \E remote \in RemoteOutcomes : Chat(remote)
    \/ ResetConversation
    \/ GetLastResponse

Spec == Init /\ [][Next]_vars

SpecAnyModel == InitAnyModel /\ [][Next]_vars

\* ------------------------------------------------- vocabulary of the claims
\* Trimming stated without strip(): t is s without a leading and a trailing
\* run of whitespace, and t neither starts nor ends with whitespace.
Blank(s) == \A k \in 1..Len(s) : s[k] \in Whitespace

Trimmed(t) == t = <<>> \/ (t[1] \notin Whitespace /\ t[Len(t)] \notin Whitespace)

IsTrimOf(t, s) ==
    /\ Trimmed(t)
    /\ \E i \in 0..Len(s) :
          /\ i + Len(t) <= Len(s)
          /\ \A k \in 1..i : s[k] \in Whitespace
          /\ \A k \in (i + Len(t) + 1)..Len(s) : s[k] \in Whitespace
          /\ \A k \in 1..Len(t) : t[k] = s[i + k]

ValidRoles == {"user", "assistant", "system"}

ValidTurn(m) ==
    /\ m.role \in ValidRoles
    /\ m.content # <<>>
    /\ Trimmed(m.content)

\* The entries of the history before are the first entries of the one after.
PrefixOf(before, after) ==
    /\ Len(after) >= Len(before)
    /\ \A i \in 1..Len(before) : after[i] = before[i]

\* The same, of the step taken.
PrefixKept == PrefixOf(_messages, _messages')

\* The remote call failed: it raised, or its response is malformed (not
\* readable by attribute, or without a first candidate that has a text).
RemoteFailed(remote) ==
    \/ remote.kind = "raise"
    \/ remote.access = "item"
    \/ remote.choices = <<>>
    \/ remote.choices[1].kind # "str"

Last(msgs) == msgs[Len(msgs)]

\* ------------------------------------------------------------------ claims
\* C1: on every reachable history, add_message with a valid role and a
\* content that is not blank returns normally, makes the history one longer,
\* the new last entry being the role with the trimmed content, and keeps every
\* earlier entry in place.
C1_AddMessageAppends ==
    \A role \in RoleInputs, content \in Texts :
        (role \in ValidRoles /\ ~Blank(content)) =>
            LET r == add_message(_messages, role, content)
            IN  /\ r.exc = None
                /\ Len(r.messages) = Len(_messages) + 1
                /\ Last(r.messages).role = role
                /\ IsTrimOf(Last(r.messages).content, content)
                /\ Last(r.messages).content # <<>>
                /\ PrefixOf(_messages, r.messages)

\* A valid message was appended after an earlier entry, and trimming removed
\* nothing from inside it.
C1_Witness ==
    /\ op = "add_message"
    /\ ret = None
    /\ Len(_messages) = 2
    /\ Last(_messages) = [role |-> "system", content |-> <<97, 32, 97>>]

\* C2: in every reachable state, add_message with a role outside
\* user/assistant/system, or with an empty or blank content, raises ValueError
\* and leaves the history as it was; no add_message step, rejected or not,
\* changes the stored response.
C2_AddMessageRejects ==
    /\ [](\A role \in RoleInputs, content \in Texts :
            (role \notin ValidRoles \/ Blank(content)) =>
                LET r == add_message(_messages, role, content)
                IN  r.exc.kind = "ValueError" /\ r.messages = _messages)
    /\ [][op' = "add_message" =>
            /\ _response' = _response
            /\ (ret'.kind = "ValueError" => _messages' = _messages)]_vars

\* A message was rejected for its content while history and response were
\* both non-empty.
C2_Witness ==
    /\ op = "add_message"
    /\ ret = ValueError("Content must be a non-empty string.")
    /\ _messages # <<>>
    /\ _response # NoResponse

\* C3: in every reachable state, when the remote call raises or returns a
\* malformed response, chat returns None, raises nothing, leaves the history
\* as it was and has called the remote endpoint exactly once.
C3_ChatRemoteFailure ==
    \A remote \in RemoteOutcomes :
        RemoteFailed(remote) =>
            LET r == chat(_messages, _response, remote)
            IN  /\ r.ret = None
                /\ r.messages = _messages
                /\ r.calls = 1

\* The remote call raised on a client with one prior user turn.
C3_Witness ==
    /\ op = "chat"
    /\ caught = "APIError"
    /\ ret = None
    /\ Len(_messages) = 1
    /\ _messages[1].role = "user"

\* C4: in every reachable state, a chat call whose remote response has a
\* first candidate with a text that is not blank adds exactly one entry,
\* assistant with the trimmed text of the first candidate, returns that text
\* and keeps the earlier entries.
C4_ChatSuccess ==
    \A remote \in RemoteOutcomes :
        (~RemoteFailed(remote) /\ ~Blank(remote.choices[1].val)) =>
            LET r == chat(_messages, _response, remote)
            IN  /\ r.ret.kind = "str"
                /\ IsTrimOf(r.ret.val, remote.choices[1].val)
                /\ Len(r.messages) = Len(_messages) + 1
                /\ Last(r.messages) = [role |-> "assistant", content |-> r.ret.val]
                /\ PrefixOf(_messages, r.messages)

\* A chat call succeeded on a response with two candidates, after a user turn.
C4_Witness ==
    /\ op = "chat"
    /\ ret.kind = "str"
    /\ Len(_response.choices) = 2
    /\ Len(_messages) = 2
    /\ _messages[1].role = "user"

\* C5: right after a successful chat call, get_last_response() is the text
\* chat returned, which is the content of the last history entry.
C5_LastResponseIsChatResult ==
    (op = "chat" /\ ret.kind = "str") =>
        /\ get_last_response(_response) = ret
        /\ Last(_messages).content = ret.val

\* C6: reset_conversation leaves the history empty and get_last_response()
\* None, and resetting again gives the same state.
C6_ResetClears ==
    op = "reset_conversation" =>
        /\ _messages = <<>>
        /\ get_last_response(_response) = None
        /\ LET again == reset_conversation(_messages, _response)
           IN  again.messages = _messages /\ again.response = _response

\* The reset has run (every history and stored response is reset in some run).
C6_Witness ==
    /\ op = "reset_conversation"
    /\ _messages = <<>>
    /\ _response = NoResponse
    /\ caught = ""

\* C7: every history entry has a role among user/assistant/system and a
\* content that is non-empty and neither starts nor ends with whitespace.
C7_HistoryWellFormed ==
    \A i \in 1..Len(_messages) : ValidTurn(_messages[i])

\* A history holding a turn added by the caller and a reply whose text the
\* remote endpoint returned with whitespace around it.
C7_Witness ==
    /\ Len(_messages) = 2
    /\ op = "chat"
    /\ ret.kind = "str"
    /\ _response.choices[1].val # ret.val
    /\ _messages[1].role = "system"

\* C8: construction resolves max_tokens to 16384 for gpt-4o-mini and to 4096
\* for gpt-3.5-turbo and for an unrecognized identifier, starts with an empty
\* history and no response, and no operation changes the identifier or
\* max_tokens.
C8_MaxTokensResolved ==
    /\ (_messages = <<>> /\ _response = NoResponse /\ ret = None)
    /\ [](max_tokens = CASE model_name = "gpt-4o-mini" -> 16384
                         [] model_name = "gpt-3.5-turbo" -> 4096
                         [] OTHER -> 4096)
    /\ [][model_name' = model_name /\ max_tokens' = max_tokens]_vars

\* A client built for an unrecognized identifier, after a successful chat.
C8_Witness ==
    /\ model_name = "foo-bar"
    /\ max_tokens = 4096
    /\ op = "chat"
    /\ ret.kind = "str"

\* C9: the stored response changes only by a successful chat, which stores
\* the response it received, and by reset_conversation, which clears it; a
\* failed chat, add_message and get_last_response leave it as it was, and
\* get_last_response returns the text of the stored response, whatever the
\* history holds.
C9_ResponseTracksLastSuccess ==
    [][/\ (op' = "chat" /\ ret' # None) =>
             \E remote \in RemoteOutcomes : Chat(remote) /\ _response' = remote
       /\ (op' = "chat" /\ ret' = None) => _response' = _response
       /\ op' \in {"add_message", "get_last_response"} => _response' = _response
       /\ op' = "reset_conversation" => _response' = NoResponse
       /\ op' = "get_last_response" =>
             ret' = IF _response = NoResponse THEN None ELSE _response.choices[1]]_vars

\* C10: every chat call either returns a text, having made the history one
\* longer and stored the response it received, or returns None, having changed
\* neither the history nor the stored response; no ValueError escapes it.
C10_ChatAllOrNothing ==
    [][op' = "chat" =>
        \/ /\ ret'.kind = "str"
           /\ Len(_messages') = Len(_messages) + 1
           /\ PrefixKept
           /\ \E remote \in RemoteOutcomes : Chat(remote) /\ _response' = remote
        \/ /\ ret' = None
           /\ _messages' = _messages
           /\ _response' = _response]_vars

\* The inner add_message rejected a blank completion text while an earlier
\* response was stored.
C10_Witness ==
    /\ op = "chat"
    /\ caught = "ValueError"
    /\ ret = None
    /\ _response # NoResponse
    /\ _messages # <<>>
====
